---- MODULE Spec2Model ----
(***************************************************************************)
(* Valuation engine of the oracle adapter                                  *)
(* (packages/oracle-adapter/src/services/valuation_service.py).            *)
(*                                                                         *)
(* Numbers.  Python floats are modelled by exact fixed-point integers:     *)
(*   money        in units of 1/MoneyScale dollar (MoneyScale = 560, so    *)
(*                that the weighted averages over weight totals 5, 7, 8,   *)
(*                10 tenths and the halvings of the calibrator are exact); *)
(*   scores, uncertainties and feature slots in basis points (1/10000);    *)
(*   squared uncertainties in squared basis points, saturated at SatCap    *)
(*   (1.25 squared): every threshold they are compared with lies below it; *)
(*   confidence-interval bounds in cents, as round(x, 2) produces them.    *)
(* Time is counted in days.                                                *)
(***************************************************************************)
EXTENDS Integers, Sequences, FiniteSets, TLC

\* ------------------------------------------------------------ bounds
\* Requests that run to the metrics update (caps prediction_count).
MaxRequests == 1

\* Training runs that get as far as refitting the scaler.
MaxTrainings == 1
\* Requests that return, spread over two days, when the market data cache is
\* followed.
MaxCacheRequests == 3

\* ------------------------------------------------- program constants
MinValue == 100
MaxValue == 1000000
MinUncertainty == 100
MaxUncertainty == 8000
NeuralWeight == 5
RandomForestWeight == 3
GradientBoostingWeight == 2
OtherModelWeight == 1
RuleBaseValue == 1000
SimilarityThreshold == 3000
TopComparables == 10
FeatureCount == 30
ExpectedMarketFields == 6
DefaultHistoricalAccuracy == 7000

\* ------------------------------------------------------ number model
MoneyScale == 7 * 8 * 10
Unit == 100 * 100
SatRoot == (5 * Unit) \div 4
SatCap == SatRoot * SatRoot
AbsentNum == 0 - 1
AbsentStr == "<absent>"

Dollars(d) == d * MoneyScale

Min2(a, b) == IF a <= b THEN a ELSE b
Max2(a, b) == IF a >= b THEN a ELSE b
Abs(x) == IF x < 0 THEN 0 - x ELSE x

\* floor(a * b / c) for a, b >= 0 and c > 0, without forming a * b.
MulDiv(a, b, c) == (a \div c) * b + ((a % c) * b) \div c

\* a * b / c rounded to the nearest integer.
MulDivRound(a, b, c) == (a \div c) * b + (2 * ((a % c) * b) + c) \div (2 * c)

\* x * x saturated at SatCap.
SatSq(x) == IF Abs(x) >= SatRoot THEN SatCap ELSE x * x

SatAdd(a, b) == Min2(a + b, SatCap)

RECURSIVE SqrtSearch(_, _, _)
SqrtSearch(n, lo, hi) ==
    IF lo >= hi THEN lo
    ELSE LET mid == (lo + hi + 1) \div 2
         IN  IF mid * mid <= n THEN SqrtSearch(n, mid, hi)
             ELSE SqrtSearch(n, lo, mid - 1)

\* floor(sqrt(n)) for 0 <= n <= SatCap * 5.
ISqrt(n) == SqrtSearch(n, 0, 46340)

RECURSIVE SumSeq(_)
SumSeq(s) == IF s = <<>> THEN 0 ELSE Head(s) + SumSeq(Tail(s))

RECURSIVE MinSeq(_)
MinSeq(s) == IF Len(s) = 1 THEN s[1] ELSE Min2(Head(s), MinSeq(Tail(s)))

RECURSIVE MaxSeq(_)
MaxSeq(s) == IF Len(s) = 1 THEN s[1] ELSE Max2(Head(s), MaxSeq(Tail(s)))

\* dict.get(key, default) on a field that holds AbsentNum / AbsentStr when
\* the key is missing.
GetNum(v, d) == IF v = AbsentNum THEN d ELSE v
GetStr(v, d) == IF v = AbsentStr THEN d ELSE v


\* ------------------------------------------------------------ inputs
ModelNames == {"random_forest", "gradient_boosting"}

\* Request metadata (test_valuation_enhanced.py, "High-Quality Music NFT")
\* and the empty metadata dict, every key missing.
MusicMetadata ==
    [category |-> "music", creator |-> "0x1234", quality_score |-> 9000,
     rarity |-> 8000, has_license |-> 1, is_verified |-> 1,
     views |-> 50000, likes |-> 5000, shares |-> 1000]

EmptyMetadata ==
    [category |-> AbsentStr, creator |-> AbsentStr, quality_score |-> AbsentNum,
     rarity |-> AbsentNum, has_license |-> AbsentNum, is_verified |-> AbsentNum,
     views |-> AbsentNum, likes |-> AbsentNum, shares |-> AbsentNum]

MetadataSet == {MusicMetadata, EmptyMetadata}

\* The clock readings a request may see: day number, hour, weekday.
Clocks == {[day |-> 1000, hour |-> 18, weekday |-> 6]}

\* Clock readings of requests that follow one another: the same hour, an
\* hour later, later on the same day, and the next day.
LaterClocks ==
    {[day |-> 1000, hour |-> h, weekday |-> 6] : h \in {0, 1, 3}} \cup
    {[day |-> 1001, hour |-> 0, weekday |-> 0]}

\* A clock reading in hours.
Stamp(now) == now.day * 24 + now.hour

\* Historical sales: price in dollars, timestamp as days before the clock
\* reading (age).
Sale(price, category, creator, quality, age) ==
    [price |-> price, category |-> category, creator |-> creator,
     quality_score |-> quality, rarity |-> AbsentNum, age |-> age]

\* The three sales of the test case above.
ScenarioSales ==
    << Sale(5000, "music", AbsentStr, 8500, 1), Sale(7500, "music", AbsentStr, 9000, 2),
       Sale(4200, "music", AbsentStr, 8000, 3) >>

CheapSale == Sale(40, "music", AbsentStr, 3000, 2)
DearSale == Sale(1900000, "music", AbsentStr, 9000, 5)
FreeSale == Sale(0, "music", AbsentStr, 9000, 1)
\* Another category, another creator, older than a year.
RemoteSale == Sale(20000, "art", "0xother", 5000, 400)

\* A sale with the attributes of MusicMetadata, made at the clock reading.
TwinSale ==
    [Sale(9000, "music", MusicMetadata.creator, 9000, 0) EXCEPT !.rarity = MusicMetadata.rarity]

\* The same with a timestamp ten days ahead of the clock.
PostdatedSale == [TwinSale EXCEPT !.age = 0 - 10]

\* Two sales that differ in their timestamps only, both older than a year.
OldSale == Sale(6000, "music", AbsentStr, 9000, 500)
OlderSale == Sale(6500, "music", AbsentStr, 9000, 700)

\* A sale record that carries a price and a timestamp only.
BareSale == Sale(3000, AbsentStr, AbsentStr, AbsentNum, 0)

\* The historical_data lists a request may carry.
HistoricalLists ==
    { <<>>,
      <<ScenarioSales[1]>>,
      ScenarioSales,
      <<CheapSale>>,
      <<ScenarioSales[1], CheapSale>>,
      <<DearSale>>,
      <<FreeSale>>,
      <<RemoteSale>>,
      <<FreeSale, RemoteSale, ScenarioSales[2]>>,
      <<OlderSale, BareSale, OldSale, PostdatedSale, TwinSale>>,
      [i \in 1..12 |-> Sale(1000 + 500 * i, "music", AbsentStr, 8500, (i * 7) % 5)] }

\* Raw outputs of the estimators before clamping: exp(value head) and tree
\* predictions in dollars, the uncertainty head in basis points.
NeuralValueOutputs == {1, 5000, 2000000}
NeuralUncertaintyOutputs == {1, 20000}
RandomForestOutputs == {5000, 5001}
GradientBoostingOutputs == {5000, 2000000}

\* The estimators whose predict call raises in a request: none, or one.
FaultSets == {{}} \cup {{e} : e \in {"neural_network"} \cup ModelNames}

\* What the models directory may hold when load_model runs: nothing, or
\* ensemble_models.joblib with the fitted models named.
DiskStates ==
    {[saved |-> FALSE, ensemble |-> {}]} \cup
    {[saved |-> TRUE, ensemble |-> S] : S \in (SUBSET ModelNames) \ {{}}}

\* ------------------------------------------------------------- state
VARIABLES
    neural_model,        \* "none" | "eval" | "train": None, or the network's mode
    ensemble_model,      \* [is_none, present, fitted]
    scaler,              \* "unfitted" | "disk" | "history": what it was fitted on
    disk,                \* the models directory: [saved, ensemble]
    model_metrics,       \* [mae, r2_score, prediction_count]
    market_data_cache,   \* cache key -> market data
    pc,                  \* position of the request in estimate_value
    request,             \* [metadata, historical_data, now]
    market_data,
    features,
    neural_prediction,   \* [value, uncertainty, rule_based]
    ensemble_prediction, \* model name -> value
    combined,            \* [value, model_uncertainty, weights]
    confidence_interval, \* <<lower, upper>> in cents
    comparable_sales,
    factors,
    estimated_value,     \* the local estimated_value of estimate_value
    chainlink,           \* "unconfigured" | "not_ready" | "ready": settings, oracle service
    oracle,              \* what step 9 did: none, skipped, submitted or failed
    response,            \* the ValuationResponse, or the raised error
    version,             \* per component: the training run that last refitted it
    train_result,        \* how the last train_model_with_new_data call ended
    observed,            \* per component: the version the request in hand read
    external_answer,     \* step 6: whether the external source was asked, and its answer
    calls_returned       \* history: the estimate_value calls that returned a response

svc_vars == <<neural_model, ensemble_model, scaler, disk, model_metrics, market_data_cache,
              chainlink, version, train_result>>
req_vars == <<pc, request, market_data, features, neural_prediction, ensemble_prediction,
              combined, confidence_interval, comparable_sales, factors, estimated_value,
              oracle, response, observed, external_answer, calls_returned>>
vars == <<svc_vars, req_vars>>

NoEnsemble == [is_none |-> TRUE, present |-> {}, fitted |-> {}]
NoRequest == [metadata |-> EmptyMetadata, historical_data |-> <<>>,
              now |-> [day |-> 0, hour |-> 0, weekday |-> 0]]
NoMarketData ==
    [n_fields |-> 0, category_volume_24h |-> AbsentNum, category_avg_price |-> AbsentNum,
     market_volatility |-> AbsentNum, bid_ask_spread |-> AbsentNum,
     order_book_depth |-> AbsentNum, trading_frequency |-> AbsentNum,
     crypto_market_cap |-> AbsentNum, nft_market_sentiment |-> AbsentNum,
     risk_appetite |-> AbsentNum, fetched_at |-> AbsentNum]
NoPrediction == [value |-> 0, uncertainty |-> 0, rule_based |-> FALSE]
NoEnsemblePrediction == [n \in {} |-> 0]
NoCombined == [value |-> 0, model_uncertainty |-> [nu |-> 0, pv |-> 0], weights |-> <<>>, total_weight |-> 0]
NoFactors == [estimated_value |-> 0, scores |-> <<>>]
\* The parts of the serving state a training run refits.
Components == {"scaler", "neural_network"} \cup ModelNames

\* A component the request did not read.
Unread == AbsentNum

NotConsulted == [consulted |-> FALSE, ok |-> TRUE, count |-> 0]
NoneObserved == [c \in Components |-> Unread]
StartUpVersion == [c \in Components |-> 0]
NoResponse == [status |-> "none", estimated_value |-> 0, confidence_interval |-> <<0, 0>>,
               comparable_sales |-> <<>>, model_uncertainty |-> [nu |-> 0, pv |-> 0]]

\* ValuationService.__init__
Init ==
    /\ neural_model = "none"
    /\ ensemble_model = NoEnsemble
    /\ scaler = "unfitted"
    /\ disk \in DiskStates
    /\ model_metrics = [mae |-> 0, r2_score |-> 0, prediction_count |-> 0]
    /\ market_data_cache = [k \in {} |-> NoMarketData]
    /\ chainlink \in {"unconfigured", "not_ready", "ready"}
    /\ pc = "idle"
    /\ request = NoRequest
    /\ market_data = NoMarketData
    /\ features = <<>>
    /\ neural_prediction = NoPrediction
    /\ ensemble_prediction = NoEnsemblePrediction
    /\ combined = NoCombined
    /\ confidence_interval = <<0, 0>>
    /\ comparable_sales = <<>>
    /\ factors = NoFactors
    /\ estimated_value = 0
    /\ oracle = <<"none">>
    /\ response = NoResponse
    /\ version = StartUpVersion
    /\ train_result = "none"
    /\ observed = NoneObserved
    /\ external_answer = NotConsulted
    /\ calls_returned = 0

\* settings.arbitrum_rpc_url has a default, so __init__ always builds self.w3.
W3Connected == TRUE

\* _create_ensemble_model: both regressors, not fitted yet.
CreateEnsembleModel == [is_none |-> FALSE, present |-> ModelNames, fitted |-> {}]

\* _load_pretrained_models, the ensemble file: the dict saved there replaces
\* the freshly created one.
LoadPretrainedEnsemble(files, fresh) ==
    IF files.saved /\ files.ensemble # {}
    THEN [is_none |-> FALSE, present |-> files.ensemble, fitted |-> files.ensemble]
    ELSE fresh

\* _load_pretrained_models, the scaler file.
LoadPretrainedScaler(files, current) ==
    IF files.saved THEN "disk" ELSE current

\* _initialize_scaler: refitted when the sample of historical training data
\* is not empty; an empty sample or an error leaves the scaler as it was.
InitializeScaler(current, have_sample) ==
    IF have_sample THEN "history" ELSE current

\* load_model, called once at start-up (main.py lifespan).  The historical
\* training data source answers with a sample or with nothing.
LoadModel ==
    /\ pc = "idle"
    /\ neural_model = "none"
    /\ \E have_sample \in BOOLEAN :
          /\ neural_model' = "eval"
          /\ ensemble_model' = LoadPretrainedEnsemble(disk, CreateEnsembleModel)
          /\ scaler' = InitializeScaler(LoadPretrainedScaler(disk, scaler), have_sample)
          /\ version' = [StartUpVersion EXCEPT
                            !["scaler"] = IF have_sample \/ disk.saved THEN 0
                                          ELSE version["scaler"]]
    /\ UNCHANGED <<disk, model_metrics, market_data_cache, chainlink, train_result, req_vars>>

\* --------------------------------------------------- 1. market data
\* _get_category_volume, _get_category_avg_price, _get_market_volatility,
\* _get_liquidity_metrics, _get_macro_indicators (trending_categories is the
\* sixth field).  fetched_at is not a key of the dict: it is the clock
\* reading at which the snapshot was made.
FetchMarketData(category, now) ==
    [n_fields |-> ExpectedMarketFields,
     category_volume_24h |-> IF category = "music" THEN 50000
                             ELSE IF category = "art" THEN 75000
                             ELSE IF category = "video" THEN 30000
                             ELSE IF category = "ebook" THEN 15000 ELSE 25000,
     category_avg_price |-> IF category = "music" THEN 2500
                            ELSE IF category = "art" THEN 5000
                            ELSE IF category = "video" THEN 3000
                            ELSE IF category = "ebook" THEN 1500 ELSE 2000,
     market_volatility |-> 2500,
     bid_ask_spread |-> 500, order_book_depth |-> 7000, trading_frequency |-> 6000,
     crypto_market_cap |-> 6000, nft_market_sentiment |-> 5000, risk_appetite |-> 4000,
     fetched_at |-> Stamp(now)]

CacheKey(metadata, now) == <<GetStr(metadata.category, "unknown"), now.day>>

\* _gather_market_data: <<market data returned, cache afterwards>>.
GatherMarketData(cache, metadata, now) ==
    LET key == CacheKey(metadata, now)
    IN  IF key \in DOMAIN cache THEN <<cache[key], cache>>
        ELSE LET fresh == FetchMarketData(key[1], now)
             IN  <<fresh, [k \in DOMAIN cache \cup {key} |-> IF k = key THEN fresh ELSE cache[k]]>>

\* ------------------------------------------------------ 2. features
\* _get_creator_reputation
CreatorReputation(creator) ==
    IF ~W3Connected \/ creator = "" THEN 5000 ELSE 7500

\* _get_category_popularity
CategoryPopularity(category) ==
    IF category = "music" THEN 8500
    ELSE IF category = "video" THEN 8000
    ELSE IF category = "art" THEN 7500
    ELSE IF category = "ebook" THEN 6000
    ELSE IF category = "course" THEN 7000
    ELSE IF category = "software" THEN 6500 ELSE 5000

GetMarketSentiment == 6000
GetSeasonalFactor == 5000

SalePrices(sales) == [i \in 1..Len(sales) |-> GetNum(sales[i].price, 0)]

RECURSIVE SumSqDiff(_)
\* Sum over pairs i < j of (s[i] - s[j])^2, which is n * sum(x^2) - sum(x)^2.
SumSqDiff(s) ==
    IF Len(s) <= 1 THEN 0
    ELSE LET rest == Tail(s)
         IN  SumSeq([i \in 1..Len(rest) |-> (Head(s) - rest[i]) * (Head(s) - rest[i])])
             + SumSqDiff(rest)

\* np.std(prices) / 5000 in basis points: 2 * sqrt(variance in dollars^2).
PriceStdSlot(prices) == (2 * ISqrt(SumSqDiff(prices))) \div Len(prices)

\* _prepare_enhanced_features: the 30 slots, in basis points.
PrepareEnhancedFeatures(metadata, historical_data, md, now) ==
    LET prices == SalePrices(historical_data)
        n == Len(historical_data)
        creator_content ==
            << CreatorReputation(GetStr(metadata.creator, "")),
               GetNum(metadata.quality_score, 5000),
               GetNum(metadata.rarity, 5000),
               GetNum(metadata.has_license, 0) * Unit,
               GetNum(metadata.is_verified, 0) * Unit,
               Min2(GetNum(metadata.views, 0), Unit),
               Min2(GetNum(metadata.likes, 0) * 10, Unit),
               Min2(GetNum(metadata.shares, 0) * 20, Unit) >>
        historical ==
            IF n > 0
            THEN << SumSeq(prices) \div n,
                    MaxSeq(prices) \div 5,
                    IF n > 1 THEN PriceStdSlot(prices) ELSE 1000,
                    n * 100,
                    0 >>
            ELSE <<5000, 5000, 1000, 1000, 1000>>
        market ==
            << CategoryPopularity(GetStr(metadata.category, "unknown")),
               GetNum(md.category_volume_24h, 0) \div 100,
               GetNum(md.category_avg_price, 1000),
               GetNum(md.market_volatility, 2000) >>
        temporal ==
            << GetMarketSentiment, GetSeasonalFactor,
               (now.hour * Unit) \div 24, (now.weekday * Unit) \div 7 >>
        liquidity ==
            << GetNum(md.bid_ask_spread, 1000), GetNum(md.order_book_depth, 5000),
               GetNum(md.trading_frequency, 3000) >>
        macro ==
            << GetNum(md.crypto_market_cap, 5000), GetNum(md.nft_market_sentiment, 5000),
               GetNum(md.risk_appetite, 5000) >>
        built == creator_content \o historical \o market \o temporal \o liquidity \o macro
    IN  [i \in 1..FeatureCount |-> IF i <= Len(built) THEN built[i] ELSE 0]

\* estimate_value, steps 1 and 2: a request arrives, market data is gathered
\* (and cached) and the feature vector is built.
StartRequest ==
    /\ pc = "idle"
    /\ model_metrics.prediction_count < MaxRequests
    /\ \E metadata \in MetadataSet, historical_data \in HistoricalLists, now \in Clocks :
          LET gathered == GatherMarketData(market_data_cache, metadata, now)
          IN  /\ request' = [metadata |-> metadata, historical_data |-> historical_data,
                             now |-> now]
              /\ market_data' = gathered[1]
              /\ market_data_cache' = gathered[2]
              /\ features' = PrepareEnhancedFeatures(metadata, historical_data, gathered[1], now)
    /\ pc' = "features"
    /\ UNCHANGED <<neural_model, ensemble_model, scaler, disk, model_metrics, chainlink,
                   version, train_result,
                   neural_prediction, ensemble_prediction, combined, confidence_interval,
                   comparable_sales, factors, estimated_value, oracle, response, observed,
                   external_answer, calls_returned>>


\* --------------------------------------------------- 3. estimators
\* max(100, min(x, 1000000)), x in money units.
ClampValue(x) == Max2(Dollars(MinValue), Min2(x, Dollars(MaxValue)))

\* max(0.01, min(u, 0.8))
ClampUncertainty(u) == Max2(MinUncertainty, Min2(u, MaxUncertainty))

\* _rule_based_valuation: 1000 * (1 + 2 f0 + 1.5 f1 + f2 + 0.5 f3), times
\* 1.5 when f4 > 0.5, clamped.  m4 is the multiplier times 4 * Unit, and
\* 1000 dollars are 14 * 4 * Unit money units.
RuleBasedValuation(f) ==
    LET m2 == 2 * Unit + 4 * f[1] + 3 * f[2] + 2 * f[3] + f[4]
        m4 == IF f[5] > 5000 THEN 3 * m2 ELSE 2 * m2
    IN  ClampValue(m4 * ((RuleBaseValue * MoneyScale) \div (4 * Unit)))

\* The uncertainty that goes with the rule-based value: value * 0.3.
RuleBasedUncertainty(value) == MulDiv(value, 3000, MoneyScale)

\* scaler.transform raises NotFittedError on a scaler that was never fitted.
ScalerTransformOk(sc) == sc # "unfitted"

\* _run_neural_model without the rule-based branch: no model, no prediction.
\* C7 must tell it from _run_neural_model.
RunNeuralModelNoFallback(nm, sc, f, raw_value, raw_unc, forward_ok) ==
    IF nm = "none" \/ ~ScalerTransformOk(sc) \/ ~forward_ok
    THEN [raised |-> TRUE, prediction |-> NoPrediction]
    ELSE [raised |-> FALSE,
          prediction |-> [value |-> ClampValue(Dollars(raw_value)),
                          uncertainty |-> ClampUncertainty(raw_unc),
                          rule_based |-> FALSE]]

\* _run_neural_model falling back to the rule-based value when the network
\* fails as well; C8 must tell it from _run_neural_model.
RunNeuralModelFallbackOnError(nm, sc, f, raw_value, raw_unc, forward_ok) ==
    IF nm = "none" \/ ~ScalerTransformOk(sc) \/ ~forward_ok
    THEN LET value == RuleBasedValuation(f)
         IN  [raised |-> FALSE,
              prediction |-> [value |-> value, uncertainty |-> RuleBasedUncertainty(value),
                              rule_based |-> TRUE]]
    ELSE [raised |-> FALSE,
          prediction |-> [value |-> ClampValue(Dollars(raw_value)),
                          uncertainty |-> ClampUncertainty(raw_unc),
                          rule_based |-> FALSE]]

\* _run_neural_model.  raw_value is exp(value head) in dollars, raw_unc the
\* uncertainty head; forward_ok says whether the forward pass returns.
\* Nothing in the function catches an exception.
RunNeuralModel(nm, sc, f, raw_value, raw_unc, forward_ok) ==
    IF nm = "none"
    THEN LET value == RuleBasedValuation(f)
         IN  [raised |-> FALSE,
              prediction |-> [value |-> value, uncertainty |-> RuleBasedUncertainty(value),
                              rule_based |-> TRUE]]
    ELSE IF ~ScalerTransformOk(sc) \/ ~forward_ok
    THEN [raised |-> TRUE, prediction |-> NoPrediction]
    ELSE [raised |-> FALSE,
          prediction |-> [value |-> ClampValue(Dollars(raw_value)),
                          uncertainty |-> ClampUncertainty(raw_unc),
                          rule_based |-> FALSE]]

\* A tree model's predict raises when the model is not fitted or faulty.
PredictOk(em, name, faulty) == name \in em.fitted /\ name \notin faulty

\* _run_ensemble_models: every exception inside is caught and gives {}.
RunEnsembleModels(em, sc, raw, faulty) ==
    IF em.is_none \/ em.present = {} THEN NoEnsemblePrediction
    ELSE IF ~ScalerTransformOk(sc) THEN NoEnsemblePrediction
    ELSE IF \E name \in em.present \cap ModelNames : ~PredictOk(em, name, faulty)
    THEN NoEnsemblePrediction
    ELSE [name \in em.present \cap ModelNames |-> ClampValue(Dollars(raw[name]))]

\* The forward pass of a one-row batch: BatchNorm1d raises in training mode.
ForwardOk(nm, faulty) == nm = "eval" /\ "neural_network" \notin faulty

\* The versions of the components that step 3 reads, in the order it reads
\* them: the neural path (scaler, network), then, unless that raised, the
\* ensemble path (scaler, random_forest, gradient_boosting up to the first
\* exception).
ObservedVersions(nm, em, sc, ver, faulty) ==
    LET neural_raised == nm # "none" /\ (~ScalerTransformOk(sc) \/ ~ForwardOk(nm, faulty))
        ensemble_runs == ~neural_raised /\ ~em.is_none /\ em.present # {}
        trees_run == ensemble_runs /\ ScalerTransformOk(sc)
        reads ==
            (IF nm # "none" \/ ensemble_runs THEN {"scaler"} ELSE {}) \cup
            (IF nm # "none" /\ ScalerTransformOk(sc) THEN {"neural_network"} ELSE {}) \cup
            (IF trees_run THEN em.present \cap {"random_forest"} ELSE {}) \cup
            (IF trees_run /\ ("random_forest" \in em.present => PredictOk(em, "random_forest", faulty))
             THEN em.present \cap {"gradient_boosting"} ELSE {})
    IN  [c \in Components |-> IF c \in reads THEN ver[c] ELSE Unread]

\* The estimators a request can get an output from, and the outputs drawn
\* for one of them (a single placeholder for an estimator that cannot run).
Runnable ==
    (IF neural_model # "none" /\ ScalerTransformOk(scaler) THEN {"neural_network"} ELSE {}) \cup
    (IF ScalerTransformOk(scaler) THEN ensemble_model.fitted ELSE {})

OutputsOf(estimator, outputs) ==
    IF estimator \in Runnable THEN outputs ELSE {CHOOSE x \in outputs : TRUE}

\* estimate_value, step 3.
RunModels ==
    /\ pc = "features"
    /\ \E raw_value \in OutputsOf("neural_network", NeuralValueOutputs),
          raw_unc \in OutputsOf("neural_network", NeuralUncertaintyOutputs),
          rf \in OutputsOf("random_forest", RandomForestOutputs),
          gb \in OutputsOf("gradient_boosting", GradientBoostingOutputs),
          faulty \in FaultSets :
          LET neural == RunNeuralModel(neural_model, scaler, features, raw_value, raw_unc,
                                       ForwardOk(neural_model, faulty))
              raw == [name \in ModelNames |-> IF name = "random_forest" THEN rf ELSE gb]
          IN  /\ IF neural.raised
                 THEN /\ pc' = "raised"
                      /\ response' = [NoResponse EXCEPT !.status = "raised"]
                      /\ UNCHANGED <<neural_prediction, ensemble_prediction>>
                 ELSE /\ pc' = "predicted"
                      /\ neural_prediction' = neural.prediction
                      /\ ensemble_prediction' = RunEnsembleModels(ensemble_model, scaler, raw, faulty)
                      /\ UNCHANGED response
              /\ observed' = ObservedVersions(neural_model, ensemble_model, scaler, version, faulty)
    /\ UNCHANGED <<svc_vars, request, market_data, features, combined, confidence_interval,
                   comparable_sales, factors, estimated_value, oracle, external_answer,
                   calls_returned>>

\* ----------------------------------------------------- 4. combiner
ModelWeight(name) ==
    IF name = "random_forest" THEN RandomForestWeight
    ELSE IF name = "gradient_boosting" THEN GradientBoostingWeight
    ELSE OtherModelWeight

\* The dict's keys in insertion order: random_forest before gradient_boosting.
PredictionOrder(ep) ==
    (IF "random_forest" \in DOMAIN ep THEN <<"random_forest">> ELSE <<>>) \o
    (IF "gradient_boosting" \in DOMAIN ep THEN <<"gradient_boosting">> ELSE <<>>)

\* The mean of the squares without the mean subtracted (any prediction is at
\* least 100 dollars, so it saturates); C9 must tell it from np.var.
PredictionSecondMoment(values) ==
    IF values = <<>> THEN 0
    ELSE IF MaxSeq(values) >= Dollars(2) THEN SatCap
    ELSE Min2(MulDiv(MaxSeq(values), Unit, MoneyScale), SatCap)

\* np.var(all_predictions) in squared basis points, saturated.  The sum of
\* the squared pairwise differences is n^2 times the variance; a pair 2n
\* dollars apart already puts the variance above 4.
PredictionVariance(values) ==
    LET n == Len(values)
    IN  IF n <= 1 THEN 0
        ELSE IF MaxSeq(values) - MinSeq(values) >= Dollars(2 * n) THEN SatCap
        ELSE Min2(MulDiv(SumSqDiff(values), (Unit \div 80) * (Unit \div 80),
                         (MoneyScale \div 80) * (MoneyScale \div 80) * n * n), SatCap)

\* A combiner that divides by the full weight 1.0 (ten tenths) whichever
\* predictions are present; C5 must tell it from _combine_predictions.
CombinePredictionsFixedTotal(np, ep) ==
    LET names == PredictionOrder(ep)
        all_predictions == <<np.value>> \o [i \in 1..Len(names) |-> ep[names[i]]]
        weights == <<NeuralWeight>> \o [i \in 1..Len(names) |-> ModelWeight(names[i])]
    IN  [value |-> SumSeq([i \in 1..Len(weights) |-> MulDiv(all_predictions[i], weights[i], 10)]),
         model_uncertainty |-> [nu |-> np.uncertainty, pv |-> PredictionVariance(all_predictions)],
         weights |-> weights,
         total_weight |-> 10]

\* _combine_predictions.  Weights are in tenths; the normalized weight of
\* prediction i is weights[i] / total_weight.  model_uncertainty stands for
\* sqrt(nu^2 + pv).
CombinePredictions(np, ep) ==
    LET names == PredictionOrder(ep)
        all_predictions == <<np.value>> \o [i \in 1..Len(names) |-> ep[names[i]]]
        weights == <<NeuralWeight>> \o [i \in 1..Len(names) |-> ModelWeight(names[i])]
        total_weight == SumSeq(weights)
        combined_value ==
            SumSeq([i \in 1..Len(weights) |-> MulDiv(all_predictions[i], weights[i], total_weight)])
    IN  [value |-> combined_value,
         model_uncertainty |-> [nu |-> np.uncertainty, pv |-> PredictionVariance(all_predictions)],
         weights |-> weights,
         total_weight |-> total_weight]

\* --------------------------------------------- 5. confidence interval
\* _assess_data_completeness
AssessDataCompleteness(f, md) ==
    LET zeros == Cardinality({i \in 1..Len(f) : f[i] = 0})
        feature_completeness == Unit - (zeros * Unit) \div Len(f)
        market_completeness == Min2((md.n_fields * Unit) \div ExpectedMarketFields, Unit)
    IN  (feature_completeness + market_completeness) \div 2

\* historical_accuracy and accuracy_uncertainty: model_metrics.get("r2_score",
\* 0.7) and (1 - historical_accuracy) * 0.3.
AccuracyUncertainty(metrics) ==
    ((Unit - GetNum(metrics.r2_score, DefaultHistoricalAccuracy)) * 3) \div 10

\* total_uncertainty squared, saturated.
TotalUncertaintySq(mu, f, md, metrics) ==
    LET feature_quality == SumSeq(f) \div Len(f)
        feature_uncertainty == 3000 - (feature_quality * 2) \div 10
        volatility_uncertainty == (GetNum(md.market_volatility, 2000) * 5) \div 10
        data_uncertainty == ((Unit - AssessDataCompleteness(f, md)) * 2) \div 10
        accuracy_uncertainty == AccuracyUncertainty(metrics)
    IN  SatAdd(SatAdd(SatAdd(SatAdd(SatAdd(SatSq(mu.nu), mu.pv),
                                    SatSq(feature_uncertainty)),
                             SatSq(volatility_uncertainty)),
                      SatSq(data_uncertainty)),
               SatSq(accuracy_uncertainty))

\* round(x, 2): money units to cents.
RoundCents(x) == MulDivRound(x, 100, MoneyScale)

\* The interval value -+ margin without the floor at 30% and the cap at
\* 300% of the value; C20 must tell it from
\* _calculate_enhanced_confidence_interval.
CalculateEnhancedConfidenceIntervalUnbounded(value, mu, f, md, metrics) ==
    LET total_uncertainty == ISqrt(TotalUncertaintySq(mu, f, md, metrics))
        margin == MulDiv(MulDiv(value, total_uncertainty, Unit), 196, 100)
    IN  <<RoundCents(value - margin), RoundCents(value + margin)>>

\* _calculate_enhanced_confidence_interval: <<lower, upper>> in cents.
\* Rounding is monotone, so the rounded max (min) is the max (min) of the
\* rounded operands; 0.3 * value is rounded from its exact value.
CalculateEnhancedConfidenceInterval(value, mu, f, md, metrics) ==
    LET total_uncertainty == ISqrt(TotalUncertaintySq(mu, f, md, metrics))
        margin == MulDiv(MulDiv(value, total_uncertainty, Unit), 196, 100)
        lower_bound == Max2(RoundCents(value - margin),
                            MulDivRound(value, 3 * 100, 10 * MoneyScale))
        upper_bound == Min2(RoundCents(value + margin), RoundCents(value * 3))
    IN  <<lower_bound, upper_bound>>

\* ----------------------------------------------- 6. comparable sales
\* What the external marketplace query may give when the request carries no
\* historical data: five sales of the asset's category (prices and quality
\* are random draws), or nothing when the query fails.
ExternalSale(metadata, price, quality, age) ==
    Sale(price, GetStr(metadata.category, ""), AbsentStr, quality, age)

\* What the marketplace query does: it raises, or it gives its five sales.
ExternalSourceAnswers(metadata) ==
    { [ok |-> FALSE, sales |-> <<>>],
      [ok |-> TRUE, sales |-> [i \in 1..5 |-> ExternalSale(metadata, 3000, 5000, 30)]],
      [ok |-> TRUE,
       sales |-> << ExternalSale(metadata, 1000, 2000, 80), ExternalSale(metadata, 2000, 4000, 60),
                    ExternalSale(metadata, 3000, 5000, 30), ExternalSale(metadata, 6000, 6000, 10),
                    ExternalSale(metadata, 12000, 8000, 0) >>] }

\* The source is not asked when the request carries historical data.
NoAnswer == [ok |-> TRUE, sales |-> <<>>]

\* The external fetch with the exception of the query passed on; C17 must
\* tell it from _fetch_external_comparable_sales.
FetchExternalComparableSalesUncaught(answer) ==
    [raised |-> ~answer.ok, sales |-> answer.sales]

\* _fetch_external_comparable_sales: an exception of the query is caught and
\* gives [].
FetchExternalComparableSales(answer) ==
    [raised |-> FALSE, sales |-> IF answer.ok THEN answer.sales ELSE <<>>]

\* The similarity score without the final min(score, 1.0); C14 must tell it
\* from _calculate_similarity_score.
CalculateSimilarityScoreUncapped(target, sale) ==
    LET category_part == IF target.category = sale.category THEN 4000 ELSE 0
        creator_part == IF target.creator = sale.creator THEN 2000 ELSE 0
        quality_similarity ==
            Unit - Abs(GetNum(target.quality_score, 5000) - GetNum(sale.quality_score, 5000))
        rarity_similarity ==
            Unit - Abs(GetNum(target.rarity, 5000) - GetNum(sale.rarity, 5000))
        time_relevance == Max2(0, Unit - (sale.age * Unit) \div 365)
    IN  category_part + creator_part + (quality_similarity * 2) \div 10
        + rarity_similarity \div 10 + time_relevance \div 10

\* _calculate_similarity_score, in basis points.
CalculateSimilarityScore(target, sale) ==
    LET category_part == IF target.category = sale.category THEN 4000 ELSE 0
        creator_part == IF target.creator = sale.creator THEN 2000 ELSE 0
        quality_similarity ==
            Unit - Abs(GetNum(target.quality_score, 5000) - GetNum(sale.quality_score, 5000))
        rarity_similarity ==
            Unit - Abs(GetNum(target.rarity, 5000) - GetNum(sale.rarity, 5000))
        time_relevance == Max2(0, Unit - (sale.age * Unit) \div 365)
        score == category_part + creator_part + (quality_similarity * 2) \div 10
                 + rarity_similarity \div 10 + time_relevance \div 10
    IN  Min2(score, Unit)

\* A sort key of the similarity score alone; C15 must tell it from the key
\* of the sort.
KeyGreaterBySimilarity(a, b) == a.similarity_score > b.similarity_score

\* The sort key of a scored sale: (similarity_score, timestamp).
KeyGreater(a, b) ==
    \/ a.similarity_score > b.similarity_score
    \/ a.similarity_score = b.similarity_score /\ a.timestamp > b.timestamp

RECURSIVE InsertDescending(_, _)
\* x into the descending list s, behind the entries whose key is not smaller.
InsertDescending(s, x) ==
    IF s = <<>> THEN <<x>>
    ELSE IF KeyGreater(x, Head(s)) THEN <<x>> \o s
    ELSE <<Head(s)>> \o InsertDescending(Tail(s), x)

RECURSIVE SortDescending(_)
\* list.sort(key=..., reverse=True): stable.
SortDescending(s) ==
    IF s = <<>> THEN <<>>
    ELSE InsertDescending(SortDescending(SubSeq(s, 1, Len(s) - 1)), s[Len(s)])

\* A sale with its similarity_score and price_per_quality added.
ScoredSale(metadata, sale, now) ==
    [price |-> sale.price, category |-> sale.category, creator |-> sale.creator,
     quality_score |-> sale.quality_score, rarity |-> sale.rarity,
     timestamp |-> now.day - sale.age,
     similarity_score |-> CalculateSimilarityScore(metadata, sale),
     price_per_quality |->
         MulDiv(GetNum(sale.price, 0), Unit, Max2(GetNum(sale.quality_score, 5000), 1000))]

\* The ranking without the cut to the first ten; C16 must tell it from
\* _find_enhanced_comparable_sales.
FindEnhancedComparableSalesUncut(metadata, historical_data, external, now) ==
    LET data == IF historical_data = <<>> THEN external ELSE historical_data
        scored == [i \in 1..Len(data) |-> ScoredSale(metadata, data[i], now)]
    IN  SortDescending(SelectSeq(scored, LAMBDA x : x.similarity_score > SimilarityThreshold))

\* _find_enhanced_comparable_sales; external is the external source's answer.
FindEnhancedComparableSales(metadata, historical_data, external, now) ==
    LET data == IF historical_data = <<>> THEN external ELSE historical_data
        scored == [i \in 1..Len(data) |-> ScoredSale(metadata, data[i], now)]
        kept == SelectSeq(scored, LAMBDA x : x.similarity_score > SimilarityThreshold)
        sorted == SortDescending(kept)
    IN  SubSeq(sorted, 1, Min2(Len(sorted), TopComparables))

\* ---------------------------------------------------- 7. factors
\* _calculate_explainable_factors: the slot each named factor is scored from,
\* and the estimated value handed to _analyze_historical_performance.
CalculateExplainableFactors(f, value) ==
    [estimated_value |-> value,
     scores |-> [creator_reputation |-> f[1], content_quality |-> f[2],
                 category_popularity |-> f[3], rarity |-> f[4],
                 market_sentiment |-> f[Len(f) - 5], liquidity |-> f[Len(f) - 2]]]

\* ------------------------------------------------- 8. market bounds
\* np.median of a non-empty list of prices (money units).
RECURSIVE SortAscending(_)
SortAscending(s) ==
    IF s = <<>> THEN <<>>
    ELSE LET m == MinSeq(s)
             i == CHOOSE k \in 1..Len(s) : s[k] = m
         IN  <<m>> \o SortAscending(SubSeq(s, 1, i - 1) \o SubSeq(s, i + 1, Len(s)))

Median(s) ==
    LET sorted == SortAscending(s)
        n == Len(s)
    IN  IF n % 2 = 1 THEN sorted[(n + 1) \div 2]
        ELSE (sorted[n \div 2] + sorted[n \div 2 + 1]) \div 2

\* The positive prices of the comparable sales, in money units.
PositivePrices(sales) ==
    LET priced == SelectSeq(sales, LAMBDA x : GetNum(x.price, 0) > 0)
    IN  [i \in 1..Len(priced) |-> Dollars(priced[i].price)]

\* A calibrator that averages with the median whether or not the value is
\* outside the bounds; C3 must tell it from _validate_market_bounds.
ValidateMarketBoundsPullAlways(value, sales) ==
    LET prices == PositivePrices(sales)
    IN  IF sales = <<>> \/ prices = <<>> THEN value
        ELSE (value + Median(prices)) \div 2

\* A calibrator without the branch for values below the lower bound; C4 must
\* tell it from _validate_market_bounds.
ValidateMarketBoundsUpperOnly(value, sales) ==
    LET prices == PositivePrices(sales)
    IN  IF sales = <<>> \/ prices = <<>> THEN value
        ELSE IF value > MaxSeq(prices) * 2 THEN (value + Median(prices)) \div 2
        ELSE value

\* A calibrator that replaces an out-of-bounds value by the median itself;
\* C18 must tell it from _validate_market_bounds.
ValidateMarketBoundsSnapToMedian(value, sales) ==
    LET prices == PositivePrices(sales)
    IN  IF sales = <<>> \/ prices = <<>> THEN value
        ELSE IF value < MinSeq(prices) \div 2 \/ value > MaxSeq(prices) * 2
             THEN Median(prices)
        ELSE value

\* _validate_market_bounds
ValidateMarketBounds(value, sales) ==
    LET prices == PositivePrices(sales)
    IN  IF sales = <<>> \/ prices = <<>> THEN value
        ELSE LET lower_bound == MinSeq(prices) \div 2
                 upper_bound == MaxSeq(prices) * 2
                 median_price == Median(prices)
             IN  IF value < lower_bound THEN (value + median_price) \div 2
                 ELSE IF value > upper_bound THEN (value + median_price) \div 2
                 ELSE value

\* ------------------------------------------ 9, 10. oracle and metrics
\* Step 9 with every failure of the transaction passed on to the caller; C12
\* must tell it from the step as written.
SubmitToOraclePropagating(cl, mu, tx_ok) ==
    IF cl = "ready" THEN (IF tx_ok THEN <<"submitted", mu>> ELSE <<"raised">>)
    ELSE <<"skipped">>

\* Step 9: with an oracle address configured and the oracle service ready
\* (is_ready), submit_valuation gets the value and 1.0 - model_uncertainty;
\* it catches every exception of the transaction and returns None.  Without
\* address, or with a service that is not ready, nothing is submitted.
SubmitToOracle(cl, mu, tx_ok) ==
    IF cl = "ready" THEN (IF tx_ok THEN <<"submitted", mu>> ELSE <<"failed", mu>>)
    ELSE <<"skipped">>

\* A metrics update that does not count; C30 must tell it from
\* _update_model_metrics.
UpdateModelMetricsUncounted(metrics) == metrics

\* A metrics update that counts a request twice; C13 must tell it from
\* _update_model_metrics.
UpdateModelMetricsTwice(metrics) ==
    [metrics EXCEPT !.prediction_count = @ + 2]

\* _update_model_metrics
UpdateModelMetrics(metrics) ==
    [metrics EXCEPT !.prediction_count = @ + 1]

\* estimate_value, steps 4 to 10 and the construction of the response.
\* estimated_value is the local of that name: the combined value from step
\* 4 on, replaced at step 8.
CompleteRequest ==
    /\ pc = "predicted"
    /\ \E answer \in (IF request.historical_data = <<>>
                      THEN ExternalSourceAnswers(request.metadata) ELSE {NoAnswer}),
          tx_ok \in (IF chainlink = "ready" THEN BOOLEAN ELSE {TRUE}) :
          LET c == CombinePredictions(neural_prediction, ensemble_prediction)
              interval == CalculateEnhancedConfidenceInterval(
                              c.value, c.model_uncertainty, features, market_data, model_metrics)
              consulted == request.historical_data = <<>>
              fetched == FetchExternalComparableSales(answer)
              step6_raised == consulted /\ fetched.raised
              sales == IF step6_raised THEN <<>>
                       ELSE FindEnhancedComparableSales(request.metadata, request.historical_data,
                                                        fetched.sales, request.now)
              validated == ValidateMarketBounds(c.value, sales)
              submission == SubmitToOracle(chainlink, c.model_uncertainty, tx_ok)
              raised == step6_raised \/ submission[1] = "raised"
          IN  /\ combined' = c
              /\ confidence_interval' = interval
              /\ external_answer' = [consulted |-> consulted, ok |-> answer.ok,
                                     count |-> Len(answer.sales)]
              /\ comparable_sales' = sales
              /\ factors' = IF step6_raised THEN NoFactors
                            ELSE CalculateExplainableFactors(features, c.value)
              /\ estimated_value' = IF step6_raised THEN c.value ELSE validated
              /\ oracle' = IF step6_raised THEN <<"none">> ELSE submission
              /\ response' = IF raised THEN [NoResponse EXCEPT !.status = "raised"]
                             ELSE [status |-> "returned",
                                   estimated_value |-> validated,
                                   confidence_interval |-> interval,
                                   comparable_sales |-> sales,
                                   model_uncertainty |-> c.model_uncertainty]
              /\ model_metrics' = IF raised THEN model_metrics
                                  ELSE UpdateModelMetrics(model_metrics)
              /\ pc' = IF raised THEN "raised" ELSE "done"
    /\ UNCHANGED <<neural_model, ensemble_model, scaler, disk, market_data_cache, chainlink,
                   version, train_result,
                   request, market_data, features, neural_prediction, ensemble_prediction,
                   observed, calls_returned>>

\* The caller has the response or the error; the request's locals are gone.
Return ==
    /\ pc \in {"done", "raised"}
    /\ pc' = "idle"
    /\ request' = NoRequest
    /\ market_data' = NoMarketData
    /\ features' = <<>>
    /\ neural_prediction' = NoPrediction
    /\ ensemble_prediction' = NoEnsemblePrediction
    /\ combined' = NoCombined
    /\ confidence_interval' = <<0, 0>>
    /\ comparable_sales' = <<>>
    /\ factors' = NoFactors
    /\ estimated_value' = 0
    /\ oracle' = <<"none">>
    /\ response' = NoResponse
    /\ observed' = NoneObserved
    /\ external_answer' = NotConsulted
    /\ calls_returned' = IF response.status = "returned" THEN calls_returned + 1
                         ELSE calls_returned
    /\ UNCHANGED svc_vars

\* ------------------------------------------- retraining and serving
\* Where a training run may stop: before touching anything (fewer than 50
\* valid samples), with an exception while fitting one of the models, or
\* nowhere.
TrainingStops == {"few_samples", "random_forest", "gradient_boosting", "neural_network", "none"}

\* The number of the training run that starts now.
NextRun == 1 + MaxSeq(<<version["scaler"], version["neural_network"],
                        version["random_forest"], version["gradient_boosting"]>>)

\* train_model_with_new_data, _save_models included.  Nothing in it suspends,
\* so no request runs in between.  The scaler is refitted in place, then
\* random_forest, then gradient_boosting (a missing key raises KeyError),
\* then the network is put in training mode, trained and put back in eval
\* mode; an exception leaves what was done so far and skips the save.
TrainModelWithNewData ==
    /\ pc = "idle"
    /\ NextRun <= MaxTrainings
    /\ \E stops_at \in TrainingStops, save_ok \in BOOLEAN :
          LET em == ensemble_model
              has_ensemble == ~em.is_none /\ em.present # {}
              rf_done == has_ensemble /\ "random_forest" \in em.present
                         /\ stops_at # "random_forest"
              gb_done == rf_done /\ "gradient_boosting" \in em.present
                         /\ stops_at # "gradient_boosting"
              trees_raised == has_ensemble /\ ~gb_done
              nn_started == ~trees_raised /\ neural_model # "none"
              nn_raised == nn_started /\ stops_at = "neural_network"
              raised == trees_raised \/ nn_raised
              refitted == {"scaler"} \cup (IF rf_done THEN {"random_forest"} ELSE {})
                          \cup (IF gb_done THEN {"gradient_boosting"} ELSE {})
                          \cup (IF nn_started THEN {"neural_network"} ELSE {})
          IN  IF stops_at = "few_samples"
              THEN /\ train_result' = "returned_early"
                   /\ UNCHANGED <<neural_model, ensemble_model, scaler, disk, version>>
              ELSE /\ scaler' = "training"
                   /\ ensemble_model' = [em EXCEPT !.fitted = @ \cup (refitted \cap ModelNames)]
                   /\ neural_model' = IF ~nn_started THEN neural_model
                                      ELSE IF nn_raised THEN "train" ELSE "eval"
                   /\ version' = [c \in Components |->
                                     IF c \in refitted THEN NextRun ELSE version[c]]
                   /\ train_result' = IF raised THEN "raised" ELSE "completed"
                   /\ disk' = IF ~raised /\ save_ok
                              THEN [saved |-> TRUE,
                                    ensemble |-> IF has_ensemble THEN em.present
                                                 ELSE disk.ensemble]
                              ELSE disk
    /\ UNCHANGED <<model_metrics, market_data_cache, chainlink, req_vars>>

\* estimate_value from call to return or raise, as one step: between two
\* training runs a request runs without suspending before step 9.  Only what
\* outlives the request is kept: the cache, the metrics, the versions read
\* and how the request ended, and with them the request and the market data
\* it was served.  Clock readings do not go back.
EstimateValueWithin(clocks, limit) ==
    /\ pc = "idle"
    /\ model_metrics.prediction_count < limit
    /\ \E metadata \in MetadataSet, now \in clocks, faulty \in FaultSets :
          LET gathered == GatherMarketData(market_data_cache, metadata, now)
              raised == /\ neural_model # "none"
                        /\ ~ScalerTransformOk(scaler) \/ ~ForwardOk(neural_model, faulty)
          IN  /\ Stamp(now) >= Stamp(request.now)
              /\ request' = [metadata |-> metadata, historical_data |-> <<>>, now |-> now]
              /\ market_data' = gathered[1]
              /\ market_data_cache' = gathered[2]
              /\ observed' = ObservedVersions(neural_model, ensemble_model, scaler, version, faulty)
              /\ response' = [NoResponse EXCEPT !.status = IF raised THEN "raised" ELSE "returned"]
              /\ model_metrics' = IF raised THEN model_metrics
                                  ELSE UpdateModelMetrics(model_metrics)
              /\ calls_returned' = IF raised THEN calls_returned ELSE calls_returned + 1
    /\ UNCHANGED <<neural_model, ensemble_model, scaler, disk, chainlink, version, train_result,
                   pc, features, neural_prediction, ensemble_prediction,
                   combined, confidence_interval, comparable_sales, factors, estimated_value,
                   oracle, external_answer>>

\* A request between training runs.
EstimateValue == EstimateValueWithin(Clocks, MaxRequests)

\* A request at some later time of the same or the next day.
EstimateValueLater == EstimateValueWithin(LaterClocks, MaxCacheRequests)

Next ==
    \/ LoadModel
    \/ StartRequest
    \/ RunModels
    \/ CompleteRequest
    \/ Return

Spec == Init /\ [][Next]_vars

\* The service under retraining: start-up, training runs and whole requests.
TrainNext ==
    \/ LoadModel
    \/ TrainModelWithNewData
    \/ EstimateValue

TrainSpec == Init /\ [][TrainNext]_vars

\* The service over two days of requests: start-up and whole requests.
CacheNext ==
    \/ LoadModel
    \/ EstimateValueLater

CacheSpec == Init /\ [][CacheNext]_vars

\* ===================================================== properties
\* Vocabulary of the properties below.
InValueRange(v) == Dollars(MinValue) <= v /\ v <= Dollars(MaxValue)

InUncertaintyRange(u) == MinUncertainty <= u /\ u <= MaxUncertainty

\* A response has been built and not yet handed back.
Returned == pc = "done" /\ response.status = "returned"

\* The soft bounds of the comparables of the request in hand.
LowerBound == MinSeq(PositivePrices(comparable_sales)) \div 2

UpperBound == MaxSeq(PositivePrices(comparable_sales)) * 2

HasPositivePrice == PositivePrices(comparable_sales) # <<>>

InMarketBounds(v) == LowerBound <= v /\ v <= UpperBound

\* The midpoint of the combined value and the median price is not above the
\* upper bound, that is: combined value <= 4 * max price - median price.
MidpointWithinUpperBound ==
    (combined.value + Median(PositivePrices(comparable_sales))) \div 2 <= UpperBound

\* The predictions the combiner was given, neural first.
AllPredictions ==
    <<neural_prediction.value>> \o
    [i \in 1..Len(PredictionOrder(ensemble_prediction)) |->
        ensemble_prediction[PredictionOrder(ensemble_prediction)[i]]]

\* C1: the confidence interval of every returned response brackets the
\* returned (calibrated) estimated_value.  The interval is in cents, so the
\* value is compared after rounding to cents.
C1_IntervalBracketsReturnedValue ==
    Returned =>
        /\ response.confidence_interval[1] <= RoundCents(response.estimated_value)
        /\ RoundCents(response.estimated_value) <= response.confidence_interval[2]

\* C2: the estimated_value of every returned response lies in
\* [100, 1000000] dollars.
C2_ReturnedValueInRange ==
    Returned => InValueRange(response.estimated_value)

\* C3 as stated: calibrating the returned value again, against the same
\* comparables, gives the returned value.
C3_CalibrationIdempotent ==
    Returned => ValidateMarketBounds(estimated_value, comparable_sales) = estimated_value

\* C3 as the calibrator provides it: a second calibration changes nothing
\* when there is no positive price, or when the combined value is at most
\* 4 * max - median (which covers every in-bound value and every value below
\* the lower bound).
C3_IdempotentWhenPullReachesBounds ==
    (Returned /\ (HasPositivePrice => MidpointWithinUpperBound)) =>
        ValidateMarketBounds(estimated_value, comparable_sales) = estimated_value

\* A calibration that moved a value from above the upper bound into the bounds.
C3_Witness ==
    /\ Returned
    /\ HasPositivePrice
    /\ combined.value > UpperBound
    /\ MidpointWithinUpperBound
    /\ estimated_value # combined.value

\* C4 as stated: with a positive comparable price the returned value lies in
\* [0.5 * min price, 2 * max price].
C4_ReturnedValueInMarketBounds ==
    (Returned /\ HasPositivePrice) => InMarketBounds(estimated_value)

\* C4 as the calibrator provides it: the returned value lies in the bounds
\* whenever the combined value is at most 4 * max - median.
C4_InMarketBoundsWhenPullReachesBounds ==
    (Returned /\ HasPositivePrice /\ MidpointWithinUpperBound) =>
        InMarketBounds(estimated_value)

\* The test case's three sales, a combined value below 2100 dollars, pulled up.
C4_Witness ==
    /\ Returned
    /\ request.historical_data = ScenarioSales
    /\ Len(comparable_sales) = 3
    /\ combined.value < LowerBound
    /\ estimated_value > combined.value

\* C5: the weights the combiner applies sum to the total it divides by (the
\* normalized weights sum to 1), one weight per prediction, and the combined
\* value is a mean of the predictions: between their least and greatest.
C5_WeightsSumToOne ==
    Returned =>
        /\ combined.total_weight > 0
        /\ SumSeq(combined.weights) = combined.total_weight
        /\ Len(combined.weights) = Len(AllPredictions)
        /\ MinSeq(AllPredictions) <= combined.value
        /\ combined.value <= MaxSeq(AllPredictions)

\* The neural prediction and one tree model's, which differ.
C5_Witness ==
    /\ Returned
    /\ Len(combined.weights) = 2
    /\ AllPredictions[1] # AllPredictions[2]

\* C6: no request ends with a raised error because an estimator failed.
C6_EstimatorFailureNeverAborts ==
    pc # "raised"

\* C7: with no neural model (and so no tree models) a request is never
\* aborted; its response's combined value is the rule-based value, carried by
\* the only weight.
C7_RuleBasedFallbackReturns ==
    (neural_model = "none" /\ pc \in {"predicted", "done", "raised"}) =>
        /\ pc # "raised"
        /\ neural_prediction.rule_based
        /\ pc = "done" =>
              /\ response.status = "returned"
              /\ combined.value = RuleBasedValuation(features)
              /\ combined.weights = <<combined.total_weight>>

\* A request served without any trained estimator.
C7_Witness ==
    /\ Returned
    /\ neural_model = "none"
    /\ combined.value = RuleBasedValuation(features)

\* C8: the rule-based value enters the combiner only when there is neither a
\* neural model nor any tree model, it is then the only prediction, and its
\* normalized weight is 1.
C8_RuleBasedNeverMixed ==
    (pc \in {"predicted", "done"} /\ neural_prediction.rule_based) =>
        /\ neural_model = "none"
        /\ ensemble_model.is_none
        /\ ensemble_prediction = NoEnsemblePrediction
        /\ pc = "done" => (Len(combined.weights) = 1 /\ combined.weights[1] = combined.total_weight)

\* The rule-based prediction, combined alone.
C8_Witness ==
    /\ pc = "done"
    /\ neural_prediction.rule_based
    /\ Len(AllPredictions) = 1
    /\ combined.weights[1] = combined.total_weight

\* C9: when every prediction equals the neural prediction's value V, the
\* combined value is V and model_uncertainty is the neural uncertainty U
\* (sqrt(U^2 + 0)).
C9_AgreementKeepsValueAndUncertainty ==
    (Returned /\ \A i \in 1..Len(AllPredictions) : AllPredictions[i] = neural_prediction.value) =>
        /\ combined.value = neural_prediction.value
        /\ combined.model_uncertainty = [nu |-> neural_prediction.uncertainty, pv |-> 0]

\* The neural network and both tree models agree.
C9_Witness ==
    /\ Returned
    /\ Len(AllPredictions) = 3
    /\ \A i \in 1..3 : AllPredictions[i] = neural_prediction.value
    /\ combined.value = neural_prediction.value

\* C10: every prediction handed to the combiner has its value in
\* [100, 1000000] dollars, and the neural (or rule-based) prediction has its
\* uncertainty in [0.01, 0.8].
C10_PredictionsInRange ==
    pc \in {"predicted", "done"} =>
        /\ \A i \in 1..Len(AllPredictions) : InValueRange(AllPredictions[i])
        /\ InUncertaintyRange(neural_prediction.uncertainty)

\* C11: the components a request reads all have the same version: no request
\* sees a scaler, tree models and network of different training runs.
C11_RequestSeesOneVersion ==
    \A a, b \in Components :
        (observed[a] # Unread /\ observed[b] # Unread) => observed[a] = observed[b]

\* C12: a request that reached step 9 gets its ValuationResponse whatever
\* the oracle step did: skipped for a service that is not ready, or a
\* submission that failed.
C12_OracleFailureNeverFailsValuation ==
    (pc \in {"done", "raised"} /\ oracle # <<"none">>) =>
        /\ pc = "done"
        /\ response.status = "returned"
        /\ response.estimated_value = estimated_value

\* A response returned after a failed submission.
C12_Witness ==
    /\ Returned
    /\ oracle[1] = "failed"

\* A step of a request: any step that does not go from idle to idle.
RequestStep == pc # "idle" \/ pc' # "idle"

\* C13 as stated: no step of a request changes the process-wide state:
\* caches, metrics, models, scaler.
C13_RequestsKeepNoState ==
    [][RequestStep =>
         UNCHANGED <<market_data_cache, model_metrics, neural_model, ensemble_model, scaler,
                     disk, version>>]_vars

\* C13 as the service provides it: a request writes neither models nor
\* scaler; it may add to market_data_cache the entry of its own category and
\* day, keeping the entries there, and it adds one to prediction_count when,
\* and only when, it completes with a response.
C13_RequestsWriteOnlyCacheAndCount ==
    [][RequestStep =>
         /\ UNCHANGED <<neural_model, ensemble_model, scaler, disk, version>>
         /\ \A k \in DOMAIN market_data_cache :
                k \in DOMAIN market_data_cache' /\ market_data_cache'[k] = market_data_cache[k]
         /\ DOMAIN market_data_cache' \subseteq
                DOMAIN market_data_cache \cup {CacheKey(request'.metadata, request'.now)}
         /\ model_metrics' =
                IF pc = "predicted" /\ pc' = "done"
                THEN [model_metrics EXCEPT !.prediction_count = @ + 1]
                ELSE model_metrics]_vars

\* A request completed: its snapshot is cached and it has been counted.
C13_Witness ==
    /\ Returned
    /\ CacheKey(request.metadata, request.now) \in DOMAIN market_data_cache
    /\ model_metrics.prediction_count = 1

\* The sale has the asset's category, creator, quality_score and rarity.
SameAttributes(target, sale) ==
    /\ target.category = sale.category
    /\ target.creator = sale.creator
    /\ GetNum(target.quality_score, 5000) = GetNum(sale.quality_score, 5000)
    /\ GetNum(target.rarity, 5000) = GetNum(sale.rarity, 5000)

\* C14: for every sale of the request in hand the similarity score lies in
\* [0, 1], and it is exactly 1 for a sale with the asset's attributes and a
\* timestamp equal to the current time.
C14_SimilarityScoreRange ==
    \A i \in 1..Len(request.historical_data) :
        LET sale == request.historical_data[i]
            score == CalculateSimilarityScore(request.metadata, sale)
        IN  /\ 0 <= score /\ score <= Unit
            /\ (SameAttributes(request.metadata, sale) /\ sale.age = 0) => score = Unit

\* The twin of the asset is ranked with score 1, and so is its postdated
\* copy, whose parts add up to more than 1.
C14_Witness ==
    /\ Returned
    /\ request.metadata = MusicMetadata
    /\ \E i, j \in 1..Len(comparable_sales) :
          /\ comparable_sales[i].timestamp = request.now.day
          /\ comparable_sales[i].similarity_score = Unit
          /\ comparable_sales[j].timestamp > request.now.day
          /\ comparable_sales[j].similarity_score = Unit

\* The scored sales of the request's historical data that pass the
\* similarity threshold.
EligibleSales ==
    SelectSeq([i \in 1..Len(request.historical_data) |->
                  ScoredSale(request.metadata, request.historical_data[i], request.now)],
              LAMBDA x : x.similarity_score > SimilarityThreshold)

\* a ranks strictly before b: higher similarity, or equal similarity and a
\* later timestamp.
RanksBefore(a, b) ==
    \/ a.similarity_score > b.similarity_score
    \/ a.similarity_score = b.similarity_score /\ a.timestamp > b.timestamp

\* C15: the comparable sales are in ranking order (similarity descending,
\* then timestamp descending), and no eligible sale of the historical data
\* that is not in the list ranks strictly before one that is.
C15_ComparablesRankedBestFirst ==
    Returned =>
        /\ \A i, j \in 1..Len(comparable_sales) :
               i < j => ~RanksBefore(comparable_sales[j], comparable_sales[i])
        /\ request.historical_data # <<>> =>
               \A k \in 1..Len(EligibleSales) :
                   \/ \E i \in 1..Len(comparable_sales) : comparable_sales[i] = EligibleSales[k]
                   \/ \A i \in 1..Len(comparable_sales) :
                          ~RanksBefore(EligibleSales[k], comparable_sales[i])

\* Two sales of equal similarity, given older first, listed newer first.
C15_Witness ==
    /\ Returned
    /\ request.historical_data # <<>>
    /\ request.historical_data[1] = OlderSale
    /\ \E i \in 1..(Len(comparable_sales) - 1) :
          /\ comparable_sales[i].similarity_score = comparable_sales[i + 1].similarity_score
          /\ comparable_sales[i].price = OldSale.price
          /\ comparable_sales[i + 1].price = OlderSale.price

\* C16: every comparable sale has a similarity above the threshold 0.3, and
\* there are at most 10 of them.
C16_ComparablesAboveThresholdAtMostTen ==
    Returned =>
        /\ Len(comparable_sales) <= TopComparables
        /\ \A i \in 1..Len(comparable_sales) :
               comparable_sales[i].similarity_score > SimilarityThreshold

\* Twelve eligible sales cut to ten.
C16_Witness ==
    /\ Returned
    /\ Len(request.historical_data) = 12
    /\ Len(EligibleSales) = 12
    /\ Len(comparable_sales) = TopComparables

\* C17: once the estimators have answered, step 6 never ends the request
\* with an error: the external source is asked exactly when the request
\* carries no historical data, and when the source fails or gives nothing
\* there are no comparable sales.
C17_RankerNeverRaises ==
    (pc \in {"done", "raised"} /\ combined # NoCombined) =>
        /\ pc = "done"
        /\ external_answer.consulted <=> request.historical_data = <<>>
        /\ (external_answer.consulted /\ (~external_answer.ok \/ external_answer.count = 0))
               => comparable_sales = <<>>

\* The external source failed and the response has no comparable sales.
C17_Witness ==
    /\ Returned
    /\ external_answer.consulted
    /\ ~external_answer.ok
    /\ response.comparable_sales = <<>>

\* C18: the calibrated value is the combined value when there is no
\* comparable sale (or none with a positive price) and when the combined
\* value lies within [0.5 * min, 2 * max] of the comparable prices; it is
\* (combined value + median price) / 2 exactly when the combined value lies
\* outside that range.  The prices are the positive ones, as in the sale
\* records of the data model.
C18_CalibrationByCases ==
    Returned =>
        IF comparable_sales = <<>> \/ ~HasPositivePrice \/ InMarketBounds(combined.value)
        THEN estimated_value = combined.value
        ELSE estimated_value =
                 (combined.value + Median(PositivePrices(comparable_sales))) \div 2

\* A combined value outside the range of several comparables was replaced
\* by its midpoint with their median.
C18_Witness ==
    /\ Returned
    /\ Len(comparable_sales) >= 2
    /\ HasPositivePrice
    /\ ~InMarketBounds(combined.value)
    /\ estimated_value = (combined.value + Median(PositivePrices(comparable_sales))) \div 2
    /\ estimated_value # combined.value

\* C19: every slot of the feature vector built for a request whose
\* historical sales all have positive prices lies in [0, 1].
C19_FeatureSlotsInUnitRange ==
    (features # <<>> /\ \A i \in 1..Len(request.historical_data) :
                            GetNum(request.historical_data[i].price, 0) > 0) =>
        /\ Len(features) = FeatureCount
        /\ \A i \in 1..FeatureCount : 0 <= features[i] /\ features[i] <= Unit

\* ceil(a * b / c) for a, b >= 0 and c > 0, without forming a * b.
MulDivCeil(a, b, c) == (a \div c) * b + ((a % c) * b + c - 1) \div c

\* The value the interval of the request in hand was computed for.
IntervalComputed == pc \in {"done", "raised"} /\ combined # NoCombined
                    /\ combined.value >= Dollars(MinValue)

\* C20 as stated: 0.3 * v <= lower <= v <= upper <= 3 * v, compared exactly
\* (lower and upper are in cents, v in money units).
C20_IntervalWithinFactorBounds ==
    IntervalComputed =>
        /\ MulDivCeil(combined.value, 3 * 100, 10 * MoneyScale) <= confidence_interval[1]
        /\ confidence_interval[1] <= MulDiv(combined.value, 100, MoneyScale)
        /\ MulDivCeil(combined.value, 100, MoneyScale) <= confidence_interval[2]
        /\ confidence_interval[2] <= MulDiv(combined.value, 3 * 100, MoneyScale)

\* C20 as the code provides it: the bounds hold up to the rounding of the
\* interval to cents, round(0.3 v) <= lower <= round(v) <= upper <= round(3 v).
C20_IntervalWithinRoundedFactorBounds ==
    IntervalComputed =>
        /\ MulDivRound(combined.value, 3 * 100, 10 * MoneyScale) <= confidence_interval[1]
        /\ confidence_interval[1] <= RoundCents(combined.value)
        /\ RoundCents(combined.value) <= confidence_interval[2]
        /\ confidence_interval[2] <= RoundCents(combined.value * 3)

\* A margin above 70% of the value: the lower bound is the floor at 30%.
C20_Witness ==
    /\ Returned
    /\ IntervalComputed
    /\ confidence_interval[1] = MulDivRound(combined.value, 3 * 100, 10 * MoneyScale)
    /\ confidence_interval[1] < RoundCents(combined.value)
    /\ confidence_interval[2] > RoundCents(combined.value)

\* C21: on a service on which no evaluation has recorded an r2 (none ever
\* does), the interval is computed with historical_r2 = 0.7, that is with
\* accuracy_uncertainty = 0.09.
C21_DefaultAccuracyUncertainty ==
    IntervalComputed =>
        /\ AccuracyUncertainty(model_metrics) = (3 * (Unit - DefaultHistoricalAccuracy)) \div 10
        /\ confidence_interval =
               CalculateEnhancedConfidenceInterval(
                   combined.value, combined.model_uncertainty, features, market_data,
                   [model_metrics EXCEPT !.r2_score = DefaultHistoricalAccuracy])

\* C22: the confidence score handed to submit_valuation, 1.0 -
\* model_uncertainty, lies in [0, 1]: model_uncertainty, the root of
\* neural_uncertainty^2 + prediction_variance, is at most 1 (and is never
\* negative).
C22_ConfidenceScoreInUnitRange ==
    (oracle # <<"none">> /\ oracle[1] \in {"submitted", "failed"}) =>
        /\ oracle[2] = combined.model_uncertainty
        /\ SatAdd(SatSq(oracle[2].nu), oracle[2].pv) <= Unit * Unit

\* The random forest's predict returned in the request in hand: with both
\* tree models loaded, gradient_boosting is read only after it did.
RandomForestPredicted ==
    /\ pc \in {"predicted", "done"}
    /\ ModelNames \subseteq ensemble_model.present
    /\ observed["random_forest"] # Unread
    /\ observed["gradient_boosting"] # Unread

\* C23: a tree model's prediction that was produced takes part in the
\* combination, with its base weight, whether or not the other tree model
\* then failed.
C23_SurvivingTreeStillCombined ==
    RandomForestPredicted =>
        /\ "random_forest" \in DOMAIN ensemble_prediction
        /\ pc = "done" =>
              /\ Len(combined.weights) >= 2
              /\ combined.weights[2] = RandomForestWeight

\* C24: with no neural model loaded the neural term of model_uncertainty is
\* 0: model_uncertainty is the disagreement term alone, and 0 when a single
\* prediction remains.
C24_NoNeuralModelNoNeuralTerm ==
    (pc = "done" /\ neural_model = "none") =>
        /\ combined.model_uncertainty.nu = 0
        /\ combined.model_uncertainty.pv = PredictionVariance(AllPredictions)
        /\ Len(AllPredictions) = 1 => combined.model_uncertainty = [nu |-> 0, pv |-> 0]

\* C25: each named factor is scored from the slot the assembler gives that
\* signal (slots counted from 1): creator_reputation 1, content_quality 2,
\* rarity 3, category_popularity 14, market_sentiment 18, and liquidity one
\* of the liquidity slots 22..24; never a zero-padded slot 28..30.
C25_FactorsScoredFromTheirSlots ==
    (pc = "done" /\ factors # NoFactors) =>
        /\ factors.scores.creator_reputation = features[1]
        /\ factors.scores.content_quality = features[2]
        /\ factors.scores.rarity = features[3]
        /\ factors.scores.category_popularity = features[14]
        /\ factors.scores.category_popularity =
               CategoryPopularity(GetStr(request.metadata.category, "unknown"))
        /\ factors.scores.market_sentiment = features[18]
        /\ factors.scores.liquidity \in {features[i] : i \in 22..24}

\* C26: the estimated value the factor report was computed from is the
\* calibrated value that the response returns as estimated_value.
C26_FactorsUseReturnedValue ==
    Returned =>
        /\ factors # NoFactors
        /\ factors.estimated_value = response.estimated_value

\* C27: the market data a request is served was fetched at most one hour
\* before the request.
C27_SnapshotServedAtMostOneHour ==
    market_data # NoMarketData =>
        /\ market_data.fetched_at <= Stamp(request.now)
        /\ Stamp(request.now) - market_data.fetched_at <= 1

\* C28: a training run that stops with an error, or returns early for lack
\* of samples, leaves the serving state as it was: scaler, tree models and
\* network (weights and mode).
C28_FailedTrainingLeavesServingState ==
    [][(TrainModelWithNewData /\ train_result' \in {"raised", "returned_early"}) =>
           UNCHANGED <<scaler, ensemble_model, neural_model, version>>]_vars

\* C29: when load_model finds the files written by _save_models, the scaler
\* that serves afterwards is the saved one, as the tree models are the saved
\* ones.
C29_SavedScalerRestoredWithModels ==
    [][(LoadModel /\ disk.saved) =>
           /\ scaler' = "disk"
           /\ disk.ensemble # {} => ensemble_model'.fitted = disk.ensemble]_vars

\* C30: whenever no request is in hand, prediction_count is the number of
\* estimate_value calls that returned a response: a call that returned was
\* counted once, a call that raised was not counted.
C30_CountEqualsReturnedCalls ==
    pc = "idle" => model_metrics.prediction_count = calls_returned

\* Two calls returned and were counted; the call after them raised.
C30_Witness ==
    /\ pc = "idle"
    /\ calls_returned = 2
    /\ model_metrics.prediction_count = 2
    /\ response.status = "raised"

====
